---- MODULE Spec2Model ----
(***************************************************************************)
(* block-world: the face culler (src/renderer/culling/mod.rs), the world   *)
(* and chunk data model (src/types.rs) and the GPU chunk storage           *)
(* (src/renderer/render_faces/mod.rs).                                     *)
(*                                                                         *)
(* Three specifications share the variables:                               *)
(*   SpecBlock  world building and check_visible_faces_for_block           *)
(*   SpecCull   world building, cull_faces and update_visible_faces        *)
(*   SpecGpu    GpuChunkStorage::new / update / upload_indices             *)
(***************************************************************************)
EXTENDS Integers, Sequences, FiniteSets, TLC

(***************************************************************************)
(* Program constants                                                       *)
(***************************************************************************)
\* Chunk.blocks is [[[BlockTypeId; 16]; 16]; 256], indexed [y][x][z]
CHUNK_WIDTH == 16
CHUNK_HEIGHT == 256
\* the last y layer, the literal of the Up test in the culler
TOP_Y == 255
\* the slab of tests::test_chunk_dig_one_block fills y in 0..64
SLAB_TOP == 64
\* a GPU chunk slot holds 16 * 16 * 16 blocks
BLOCKS_PER_GPU_CHUNK == 4096

(***************************************************************************)
(* Bounds of the model                                                     *)
(***************************************************************************)
\* chunks held by World.chunks at a time
MaxChunks == 2
\* cells of the world that direct writes chunk.blocks[y][x][z] = id have
\* left different from their layer's fill
MaxWritten == 1
\* capacity handed to GpuChunkStorage::new
Capacity == 2
\* update calls per behaviour of the GPU storage
MaxUpdates == 4

(***************************************************************************)
(* types.rs: Direction                                                     *)
(***************************************************************************)
Direction == {"Up", "Down", "North", "South", "East", "West"}

ALL == <<"Up", "Down", "North", "South", "East", "West">>

to_offset(direction) ==
    CASE direction = "Up"    -> <<0, 1, 0>>
      [] direction = "Down"  -> <<0, -1, 0>>
      [] direction = "North" -> <<0, 0, -1>>
      [] direction = "South" -> <<0, 0, 1>>
      [] direction = "East"  -> <<1, 0, 0>>
      [] direction = "West"  -> <<-1, 0, 0>>

(***************************************************************************)
(* types.rs: BlockRegistry.  block_types is an IndexMap; block type id i   *)
(* is the entry at position i, held here at index i + 1 of a sequence.     *)
(***************************************************************************)
BlockRegistryNew ==
    << [name |-> "air",   transparent |-> TRUE],
       [name |-> "stone", transparent |-> FALSE],
       [name |-> "grass", transparent |-> FALSE] >>

\* BlockRegistry::new with one transparent block type inserted into the
\* public block_types map
BlockRegistryGlass ==
    Append(BlockRegistryNew, [name |-> "glass", transparent |-> TRUE])

\* the registries a World is built with
Registries == {BlockRegistryGlass}

BlockTypeIds(registry) == 0 .. (Len(registry) - 1)

is_block_transparent(registry, block_type_id) ==
    registry[block_type_id + 1].transparent

(***************************************************************************)
(* types.rs: Chunk.  The 256 x 16 x 16 array is held as a filled run of    *)
(* layers (y < fill_top hold fill_id, the layers above hold 0) plus the    *)
(* cells <<y, x, z>> whose value differs from that; blocks(chunk, y, x, z) *)
(* is chunk.blocks[y][x][z].                                               *)
(***************************************************************************)
ChunkDefault == [fill_top |-> 0, fill_id |-> 0, cells |-> <<>>]

InArray(y, x, z) ==
    /\ y \in 0 .. (CHUNK_HEIGHT - 1)
    /\ x \in 0 .. (CHUNK_WIDTH - 1)
    /\ z \in 0 .. (CHUNK_WIDTH - 1)

LayerValue(chunk, y) == IF y < chunk.fill_top THEN chunk.fill_id ELSE 0

blocks(chunk, y, x, z) ==
    IF <<y, x, z>> \in DOMAIN chunk.cells
    THEN chunk.cells[<<y, x, z>>]
    ELSE LayerValue(chunk, y)

\* chunk.blocks[y][x][z] = block_type_id
blocks_set(chunk, y, x, z, block_type_id) ==
    LET others == DOMAIN chunk.cells \ {<<y, x, z>>}
        keys   == IF block_type_id = LayerValue(chunk, y)
                  THEN others
                  ELSE others \cup {<<y, x, z>>}
    IN  [chunk EXCEPT !.cells =
            [c \in keys |-> IF c = <<y, x, z>> THEN block_type_id
                            ELSE chunk.cells[c]]]

\* for y in 0..64 { for x in 0..16 { for z in 0..16 { blocks[y][x][z] = id }}}
blocks_fill(chunk, block_type_id) ==
    LET above == {c \in DOMAIN chunk.cells : c[1] >= SLAB_TOP}
    IN  [fill_top |-> SLAB_TOP, fill_id |-> block_type_id,
         cells |-> [c \in above |-> chunk.cells[c]]]

(***************************************************************************)
(* types.rs: ChunkPosition and World                                       *)
(***************************************************************************)
Pos(cx, cz) == [x |-> cx, z |-> cz]

\* the chunk positions the model loads: a chunk, its East neighbour and its
\* South neighbour (so every horizontal direction has a loaded neighbour
\* from one of them)
ChunkPositions == {Pos(0, 0), Pos(1, 0), Pos(0, 1)}

VARIABLES
    chunks,           \* World.chunks: ChunkPosition -> Chunk
    block_registry,   \* World.block_registry
    checked,          \* the last call of check_visible_faces_for_block
    visible_faces,    \* the HashMap<ChunkPosition, Vec<VisibleFace>> of the culler
    culled,           \* the last culling call and what it saw
    pass,             \* the jobs of a cull_faces pass on the thread pool
    indexed,          \* the last call of World's index or index_mut
    chunk_blocks_map, \* GpuChunkStorage.chunk_blocks_map
    chunk_holes,      \* GpuChunkStorage.chunk_holes
    chunk_buffer,     \* the payloads written to GpuChunkStorage.chunk_buffer
    index_buffer,     \* the entries written to GpuChunkStorage.index_buffer
    updated,          \* the last call of GpuChunkStorage::update
    uploaded,         \* the last call of GpuChunkStorage::upload_indices
    drawn             \* the last call of RenderFacesPipeline::render_cube_faces

world_vars == <<chunks, block_registry>>

cull_vars == <<checked, visible_faces, culled, pass, indexed>>

gpu_vars ==
    <<chunk_blocks_map, chunk_holes, chunk_buffer, index_buffer, updated,
      uploaded, drawn>>

(***************************************************************************)
(* culling/mod.rs                                                          *)
(***************************************************************************)
\* slip: the position is given in the order of the array indices, y first
VisibleFace_layer_first(position, direction, block_type_id) ==
    [position |-> <<position[2], position[1], position[3]>>,
     direction |-> direction, block_type_id |-> block_type_id]

VisibleFace(position, direction, block_type_id) ==
    [position |-> position, direction |-> direction,
     block_type_id |-> block_type_id]

\* slip: the iteration stops one direction short of Direction::ALL
all_faces_short(position, block_type_id) ==
    [i \in 1 .. (Len(ALL) - 1) |-> VisibleFace(position, ALL[i], block_type_id)]

all_faces(position, block_type_id) ==
    [i \in 1 .. Len(ALL) |-> VisibleFace(position, ALL[i], block_type_id)]

\* the neighbour of block_position in `direction`, before any wrapping
Neighbor(block_position, direction) ==
    <<block_position[1] + to_offset(direction)[1],
      block_position[2] + to_offset(direction)[2],
      block_position[3] + to_offset(direction)[3]>>

\* slip: the offset along one axis is also applied, negated, to the other
NeighborChunkPosition_skewed(chunk_position, direction) ==
    Pos(chunk_position.x + to_offset(direction)[1] - to_offset(direction)[3],
        chunk_position.z + to_offset(direction)[3] - to_offset(direction)[1])

NeighborChunkPosition(chunk_position, direction) ==
    Pos(chunk_position.x + to_offset(direction)[1],
        chunk_position.z + to_offset(direction)[3])

\* slip: strict comparisons, so layer 0 and layer 255 are not boundaries
AtVerticalBoundary_strict(y, direction) ==
    \/ y < 0 /\ direction = "Down"
    \/ y > TOP_Y /\ direction = "Up"

AtVerticalBoundary(y, direction) ==
    \/ y <= 0 /\ direction = "Down"
    \/ y >= TOP_Y /\ direction = "Up"

OutsideChunk(nx, nz) ==
    nx < 0 \/ nx >= CHUNK_WIDTH \/ nz < 0 \/ nz >= CHUNK_WIDTH

\* slip: the coordinate is clamped into the chunk instead of wrapped
Wrap_clamp(n) ==
    IF n < 0 THEN 0 ELSE IF n >= CHUNK_WIDTH THEN CHUNK_WIDTH - 1 ELSE n

Wrap(n) == (n + CHUNK_WIDTH) % CHUNK_WIDTH

\* slip: a block of the chunk hides the face unless it is air
FaceVisible_air_only(world_chunks, registry, chunk, chunk_position, block_position, direction) ==
    LET y == block_position[2]
        n == Neighbor(block_position, direction)
        ncp == NeighborChunkPosition(chunk_position, direction)
    IN  IF AtVerticalBoundary(y, direction) THEN TRUE
        ELSE IF OutsideChunk(n[1], n[3])
        THEN IF ncp \in DOMAIN world_chunks
             THEN is_block_transparent(registry,
                      blocks(world_chunks[ncp], y, Wrap(n[1]), Wrap(n[3])))
             ELSE FALSE
        ELSE blocks(chunk, n[2], n[1], n[3]) = 0

\* slip: the face towards a loaded neighbouring chunk is pushed without
\* testing the neighbouring block
FaceVisible_untested(world_chunks, registry, chunk, chunk_position, block_position, direction) ==
    LET y == block_position[2]
        n == Neighbor(block_position, direction)
        ncp == NeighborChunkPosition(chunk_position, direction)
    IN  IF AtVerticalBoundary(y, direction) THEN TRUE
        ELSE IF OutsideChunk(n[1], n[3])
        THEN ncp \in DOMAIN world_chunks
        ELSE is_block_transparent(registry, blocks(chunk, n[2], n[1], n[3]))

\* slip: a missing neighbouring chunk is treated as air
FaceVisible_open(world_chunks, registry, chunk, chunk_position, block_position, direction) ==
    LET y == block_position[2]
        n == Neighbor(block_position, direction)
        ncp == NeighborChunkPosition(chunk_position, direction)
    IN  IF AtVerticalBoundary(y, direction) THEN TRUE
        ELSE IF OutsideChunk(n[1], n[3])
        THEN IF ncp \in DOMAIN world_chunks
             THEN is_block_transparent(registry,
                      blocks(world_chunks[ncp], y, Wrap(n[1]), Wrap(n[3])))
             ELSE TRUE
        ELSE is_block_transparent(registry, blocks(chunk, n[2], n[1], n[3]))

\* one iteration of the loop over Direction::ALL for an opaque block: is the
\* face pushed
FaceVisible(world_chunks, registry, chunk, chunk_position, block_position, direction) ==
    LET y == block_position[2]
        n == Neighbor(block_position, direction)
        ncp == NeighborChunkPosition(chunk_position, direction)
    IN  IF AtVerticalBoundary(y, direction) THEN TRUE
        ELSE IF OutsideChunk(n[1], n[3])
        THEN IF ncp \in DOMAIN world_chunks
             THEN is_block_transparent(registry,
                      blocks(world_chunks[ncp], y, Wrap(n[1]), Wrap(n[3])))
             ELSE FALSE
        ELSE is_block_transparent(registry, blocks(chunk, n[2], n[1], n[3]))

\* the array cells one iteration of the loop indexes: <<position of the chunk
\* read (chunk_position for `chunk` itself), y, x, z>>
FaceReads(world_chunks, chunk_position, block_position, direction) ==
    LET y == block_position[2]
        n == Neighbor(block_position, direction)
        ncp == NeighborChunkPosition(chunk_position, direction)
    IN  IF AtVerticalBoundary(y, direction) THEN {}
        ELSE IF OutsideChunk(n[1], n[3])
        THEN IF ncp \in DOMAIN world_chunks
             THEN {<<ncp, y, Wrap(n[1]), Wrap(n[3])>>}
             ELSE {}
        ELSE {<<chunk_position, n[2], n[1], n[3]>>}

\* slip: no early return for air
check_visible_faces_for_block_no_air(block_type_id, world_chunks, registry, chunk, chunk_position, block_position) ==
    IF is_block_transparent(registry, block_type_id)
    THEN all_faces(block_position, block_type_id)
    ELSE LET pushed == SelectSeq(ALL, LAMBDA d :
                           FaceVisible(world_chunks, registry, chunk,
                                       chunk_position, block_position, d))
         IN  [i \in 1 .. Len(pushed) |->
                 VisibleFace(block_position, pushed[i], block_type_id)]

check_visible_faces_for_block(block_type_id, world_chunks, registry, chunk, chunk_position, block_position) ==
    IF block_type_id = 0 THEN <<>>
    ELSE IF is_block_transparent(registry, block_type_id)
    THEN all_faces(block_position, block_type_id)
    ELSE LET pushed == SelectSeq(ALL, LAMBDA d :
                           FaceVisible(world_chunks, registry, chunk,
                                       chunk_position, block_position, d))
         IN  [i \in 1 .. Len(pushed) |->
                 VisibleFace(block_position, pushed[i], block_type_id)]

\* every array cell a call indexes
check_reads(block_type_id, world_chunks, registry, chunk_position, block_position) ==
    IF block_type_id = 0 THEN {}
    ELSE IF is_block_transparent(registry, block_type_id) THEN {}
    ELSE UNION {FaceReads(world_chunks, chunk_position, block_position, d) :
                    d \in Direction}

\* chunk.blocks.par_iter().enumerate().flat_map_iter(|(y, xz_plane)| ...):
\* FlatMap(F, n) is F(0) \o F(1) \o ... \o F(n - 1), concatenated by halves of
\* the index range
cull_faces_for_chunk(world_chunks, registry, chunk, chunk_position) ==
    LET FlatMap(F(_), n) ==
            LET acc[r \in (0 .. n) \X (0 .. n)] ==
                    IF r[2] <= r[1] THEN <<>>
                    ELSE IF r[2] = r[1] + 1 THEN F(r[1])
                    ELSE LET mid == (r[1] + r[2]) \div 2
                         IN  acc[<<r[1], mid>>] \o acc[<<mid, r[2]>>]
            IN  acc[<<0, n>>]
    IN  FlatMap(LAMBDA y :
            FlatMap(LAMBDA x :
                FlatMap(LAMBDA z :
                    check_visible_faces_for_block(blocks(chunk, y, x, z),
                        world_chunks, registry, chunk, chunk_position,
                        <<x, y, z>>),
                    CHUNK_WIDTH),
                CHUNK_WIDTH),
            CHUNK_HEIGHT)

\* the part of cull_faces_for_chunk that one job of chunk.blocks.par_iter()
\* runs: the closure of flat_map_iter for the layers y of layers[1] up to,
\* not including, layers[2]
cull_layers(world_chunks, registry, chunk, chunk_position, layers) ==
    LET FlatMap(F(_), n) ==
            LET acc[r \in (0 .. n) \X (0 .. n)] ==
                    IF r[2] <= r[1] THEN <<>>
                    ELSE IF r[2] = r[1] + 1 THEN F(r[1])
                    ELSE LET mid == (r[1] + r[2]) \div 2
                         IN  acc[<<r[1], mid>>] \o acc[<<mid, r[2]>>]
            IN  acc[<<0, n>>]
    IN  FlatMap(LAMBDA k :
            FlatMap(LAMBDA x :
                FlatMap(LAMBDA z :
                    check_visible_faces_for_block(
                        blocks(chunk, layers[1] + k, x, z),
                        world_chunks, registry, chunk, chunk_position,
                        <<x, layers[1] + k, z>>),
                    CHUNK_WIDTH),
                CHUNK_WIDTH),
            layers[2] - layers[1])

\* slip: every chunk is culled in a world that holds this chunk only
cull_faces_alone(world_chunks, registry) ==
    [p \in DOMAIN world_chunks |->
        cull_faces_for_chunk([q \in {p} |-> world_chunks[q]], registry,
                             world_chunks[p], p)]

cull_faces(world_chunks, registry) ==
    [p \in DOMAIN world_chunks |->
        cull_faces_for_chunk(world_chunks, registry, world_chunks[p], p)]

(***************************************************************************)
(* The cells the model writes and probes: the floor, the ceiling and layer *)
(* 1, which a slab fills; in x and z a middle coordinate, the four edges   *)
(* and corners.                                                            *)
(***************************************************************************)
STONE_ID == 1

NoCall == [op |-> "none"]

\* block positions (x, y, z) handed to check_visible_faces_for_block
ProbePositions ==
    { <<8, 1, 8>>, <<8, 0, 8>>, <<8, 255, 8>>,
      <<0, 1, 8>>, <<15, 1, 8>>, <<8, 1, 0>>, <<8, 1, 15>>,
      <<15, 1, 0>>, <<0, 1, 15>>, <<0, 0, 0>>, <<15, 255, 15>> }

\* cells <<y, x, z>> written by chunk.blocks[y][x][z] = id: the cell above
\* <<8, 1, 8>> and the two corners of layer 1 that face the probed blocks of
\* the neighbouring chunks
EditCells == { <<2, 8, 8>>, <<1, 15, 15>>, <<1, 0, 0>> }

(***************************************************************************)
(* World building: World::new, world.chunks.insert(p, Chunk::default()),   *)
(* the slab loops and the direct cell writes of culling/mod.rs tests       *)
(***************************************************************************)
WorldNew(registry) ==
    /\ chunks = <<>>
    /\ block_registry = registry

MapInsert(map, key, value) == (key :> value) @@ map

WrittenCells(world_chunks) ==
    UNION {{<<p, c>> : c \in DOMAIN world_chunks[p].cells} :
               p \in DOMAIN world_chunks}

InsertChunk(chunk_position) ==
    /\ Cardinality(DOMAIN chunks \cup {chunk_position}) <= MaxChunks
    /\ chunks' = MapInsert(chunks, chunk_position, ChunkDefault)
    /\ UNCHANGED <<block_registry, gpu_vars>>

FillSlab(chunk_position) ==
    /\ chunk_position \in DOMAIN chunks
    /\ chunks' = [chunks EXCEPT ![chunk_position] = blocks_fill(@, STONE_ID)]
    /\ UNCHANGED <<block_registry, gpu_vars>>

SetBlock(chunk_position, cell, block_type_id) ==
    /\ chunk_position \in DOMAIN chunks
    /\ InArray(cell[1], cell[2], cell[3])
    /\ chunks' = [chunks EXCEPT ![chunk_position] =
                      blocks_set(@, cell[1], cell[2], cell[3], block_type_id)]
    /\ Cardinality(WrittenCells(chunks')) <= MaxWritten
    /\ UNCHANGED <<block_registry, gpu_vars>>

BuildWorld ==
    \/ \E p \in ChunkPositions : InsertChunk(p)
    \/ \E p \in ChunkPositions : FillSlab(p)
    \/ \E p \in ChunkPositions, c \in EditCells,
          id \in BlockTypeIds(block_registry) : SetBlock(p, c, id)

(***************************************************************************)
(* A call of check_visible_faces_for_block on a chunk of the world         *)
(***************************************************************************)
CheckBlock(block_type_id, chunk_position, block_position) ==
    /\ chunk_position \in DOMAIN chunks
    /\ checked = NoCall
    /\ checked' =
          [op |-> "check",
           block_type_id |-> block_type_id,
           chunk_position |-> chunk_position,
           block_position |-> block_position,
           loaded |-> DOMAIN chunks,
           faces |-> check_visible_faces_for_block(block_type_id, chunks,
                         block_registry, chunks[chunk_position],
                         chunk_position, block_position),
           reads |-> check_reads(block_type_id, chunks, block_registry,
                         chunk_position, block_position)]
    /\ UNCHANGED <<world_vars, visible_faces, culled, pass, indexed, gpu_vars>>

(***************************************************************************)
(* render_faces/mod.rs: GpuChunkStorage                                    *)
(***************************************************************************)
\* Option<GpuBlock>
None == [some |-> FALSE]

Some(block) == [some |-> TRUE, value |-> block]

ChunkUpdate(block_index, block) ==
    [block_index |-> block_index, block |-> block]

\* slip: the range of the free slots is closed, one slot too many
chunk_holes_new_closed(chunks_count) ==
    [i \in 1 .. (chunks_count + 1) |-> chunks_count + 1 - i]

\* slip: the range of the free slots is not reversed
chunk_holes_new_forward(chunks_count) ==
    [i \in 1 .. chunks_count |-> i - 1]

\* chunk_holes: (0..chunks as u32).rev().collect()
chunk_holes_new(chunks_count) ==
    [i \in 1 .. chunks_count |-> chunks_count - i]

\* Vec::pop: the last element, and the vector without it
pop_value(holes) == holes[Len(holes)]

\* slip: the last element is read and stays in the vector
pop_rest_last(holes) == holes

pop_rest(holes) == SubSeq(holes, 1, Len(holes) - 1)

GpuChunkStorageNew(chunks_count) ==
    /\ chunk_buffer = <<>>
    /\ index_buffer = <<>>
    /\ chunk_blocks_map = <<>>
    /\ chunk_holes = chunk_holes_new(chunks_count)

\* one pass of the loop of update over the updates of a call: the set of
\* block indices of the chunk
update_block_indices(block_indices, update) ==
    IF update.block.some
    THEN block_indices \cup {update.block_index}
    ELSE block_indices \ {update.block_index}

\* slip: a removal clears the payload of the block in the chunk buffer
update_chunk_buffer_clear(buffer, chunk_index, update) ==
    IF update.block.some
    THEN MapInsert(buffer, <<chunk_index, update.block_index>>,
                   update.block.value)
    ELSE [k \in DOMAIN buffer \ {<<chunk_index, update.block_index>>} |->
             buffer[k]]

\* one pass of the loop of update: the payloads of the chunk buffer
update_chunk_buffer(buffer, chunk_index, update) ==
    IF update.block.some
    THEN MapInsert(buffer, <<chunk_index, update.block_index>>,
                   update.block.value)
    ELSE buffer

\* slip: the write into the chunk buffer is not bounds-checked
block_in_bounds_any(block_index) == TRUE

\* chunk.chunks[chunk_index].blocks[block_index]: blocks is the fixed-size
\* array of the blocks of a chunk, and indexing it is bounds-checked
block_in_bounds(block_index) == block_index < BLOCKS_PER_GPU_CHUNK

\* the loop of update: the block indices and the buffer after the updates
\* lo + 1 .. hi of the call, applied in their order to `state` (the range
\* is halved to keep the evaluation shallow for the 4096 updates of
\* RenderFacesPipeline::new)
RECURSIVE update_loop_from(_, _, _, _, _)
update_loop_from(state, chunk_index, updates, lo, hi) ==
    IF hi <= lo THEN state
    ELSE IF hi = lo + 1
    THEN IF state.panicked THEN state
         ELSE IF updates[hi].block.some
                    /\ ~block_in_bounds(updates[hi].block_index)
         THEN \* the write panics: the passes before it stay applied
              [state EXCEPT !.panicked = TRUE]
         ELSE [block_indices |->
                   update_block_indices(state.block_indices, updates[hi]),
               buffer |->
                   update_chunk_buffer(state.buffer, chunk_index, updates[hi]),
               panicked |-> FALSE]
    ELSE LET mid == (lo + hi) \div 2
             first == update_loop_from(state, chunk_index, updates, lo, mid)
         IN  \* the comparison has the first half evaluated before the
             \* second half is entered
             IF first = first
             THEN update_loop_from(first, chunk_index, updates, mid, hi)
             ELSE first

update_loop(block_indices, buffer, chunk_index, updates) ==
    update_loop_from([block_indices |-> block_indices, buffer |-> buffer,
                      panicked |-> FALSE],
                     chunk_index, updates, 0, Len(updates))

\* how many calls of update were made
UpdateCalls == IF updated = NoCall THEN 0 ELSE updated.call

UpdateCalled(chunk_position, updates, result) ==
    [op |-> "update",
     call |-> UpdateCalls + 1,
     chunk_position |-> chunk_position,
     updates |-> updates,
     was_mapped |-> chunk_position \in DOMAIN chunk_blocks_map,
     mapped_before |-> Cardinality(DOMAIN chunk_blocks_map),
     result |-> result]

\* slip: a chunk left without an occupied block is dropped from the map
update_entry_release(chunk_position, entry, updates) ==
    LET done == update_loop(entry[2], chunk_buffer, entry[1], updates)
    IN  /\ chunk_blocks_map' =
              IF done.block_indices = {}
              THEN [q \in DOMAIN chunk_blocks_map \ {chunk_position} |->
                        chunk_blocks_map[q]]
              ELSE MapInsert(chunk_blocks_map, chunk_position,
                             <<entry[1], done.block_indices>>)
        /\ chunk_buffer' = done.buffer

\* update with the entry of the chunk at hand
update_entry(chunk_position, entry, updates) ==
    LET done == update_loop(entry[2], chunk_buffer, entry[1], updates)
    IN  /\ chunk_blocks_map' =
              MapInsert(chunk_blocks_map, chunk_position,
                        <<entry[1], done.block_indices>>)
        /\ chunk_buffer' = done.buffer

\* slip: the entry of the chunk position is inserted before the slot is
\* popped
or_insert_with_panicked_inserted(map, chunk_position) ==
    MapInsert(map, chunk_position, <<0, {}>>)

\* chunk_holes.pop().unwrap() panics inside the closure of or_insert_with:
\* the vacant entry is dropped and the map is as before
or_insert_with_panicked(map, chunk_position) == map

\* how update with the entry of the chunk at hand ends
update_result(entry, updates) ==
    IF update_loop(entry[2], chunk_buffer, entry[1], updates).panicked
    THEN "out_of_bounds"
    ELSE "ok"

\* an upload is stale once the storage was updated after it
Stale(call) ==
    IF call = NoCall THEN call
    ELSE [op |-> call.op, count |-> call.count, fresh |-> FALSE]

Update(chunk_position, updates) ==
    /\ UpdateCalls < MaxUpdates
    /\ IF chunk_position \in DOMAIN chunk_blocks_map
       THEN /\ update_entry(chunk_position,
                            chunk_blocks_map[chunk_position], updates)
            /\ updated' = UpdateCalled(chunk_position, updates,
                              update_result(chunk_blocks_map[chunk_position],
                                            updates))
            /\ uploaded' = Stale(uploaded)
            /\ UNCHANGED chunk_holes
       ELSE IF chunk_holes = <<>>
       THEN \* chunk_holes.pop().unwrap() panics: nothing was written yet
            /\ updated' = UpdateCalled(chunk_position, updates, "panic")
            /\ chunk_blocks_map' =
                  or_insert_with_panicked(chunk_blocks_map, chunk_position)
            /\ UNCHANGED <<chunk_holes, chunk_buffer, uploaded>>
       ELSE /\ update_entry(chunk_position,
                            <<pop_value(chunk_holes), {}>>, updates)
            /\ chunk_holes' = pop_rest(chunk_holes)
            /\ updated' = UpdateCalled(chunk_position, updates,
                              update_result(<<pop_value(chunk_holes), {}>>,
                                            updates))
            /\ uploaded' = Stale(uploaded)
    /\ UNCHANGED <<index_buffer, drawn, world_vars, cull_vars>>

\* the orders in which an iterator of a HashMap or a HashSet yields a set
Orders(set) ==
    {order \in [1 .. Cardinality(set) -> set] :
        \A i, j \in 1 .. Cardinality(set) : i # j => order[i] # order[j]}

\* slip: the inner loop writes the first block index of a chunk only
upload_entries_first(map, chunk_order, block_order) ==
    LET from[n \in 1 .. (Len(chunk_order) + 1)] ==
            IF n > Len(chunk_order) THEN <<>>
            ELSE [k \in 1 .. (IF block_order[chunk_order[n]] = <<>>
                              THEN 0 ELSE 1) |->
                     <<map[chunk_order[n]][1],
                       block_order[chunk_order[n]][k]>>] \o from[n + 1]
    IN  from[1]

\* the entries upload_indices writes for the chunks from the n-th of the
\* outer loop on
upload_entries(map, chunk_order, block_order) ==
    LET from[n \in 1 .. (Len(chunk_order) + 1)] ==
            IF n > Len(chunk_order) THEN <<>>
            ELSE [k \in 1 .. Len(block_order[chunk_order[n]]) |->
                     <<map[chunk_order[n]][1],
                       block_order[chunk_order[n]][k]>>] \o from[n + 1]
    IN  from[1]

\* indices[i] = .. for i below the count; the entries behind stay
write_indices(indices, entries) ==
    entries \o SubSeq(indices, Len(entries) + 1, Len(indices))

\* slip: the loops drain the sets of block indices they walk
iterated_drain(map) == [p \in DOMAIN map |-> <<map[p][1], {}>>]

\* chunk_blocks_map.iter() and block_indices.iter() borrow: the map after
\* the loops of upload_indices
iterated(map) == map

\* the pairs in the first count entries of the index buffer
IndexPairs(indices, count) == {indices[i] : i \in 1 .. count}

\* what the call before returned and wrote, when no update came after it
PreviousUpload ==
    IF uploaded = NoCall THEN NoCall
    ELSE IF ~uploaded.fresh THEN NoCall
    ELSE [op |-> "upload_indices",
          count |-> uploaded.count,
          pairs |-> IndexPairs(index_buffer, uploaded.count)]

UploadIndices ==
    /\ \E chunk_order \in Orders(DOMAIN chunk_blocks_map) :
       \E block_order \in
              [DOMAIN chunk_blocks_map ->
                  UNION {Orders(chunk_blocks_map[p][2]) :
                             p \in DOMAIN chunk_blocks_map}] :
          /\ \A p \in DOMAIN chunk_blocks_map :
                block_order[p] \in Orders(chunk_blocks_map[p][2])
          /\ LET entries == upload_entries(chunk_blocks_map, chunk_order,
                                           block_order)
             IN  /\ index_buffer' = write_indices(index_buffer, entries)
                 /\ uploaded' = [op |-> "upload_indices",
                                 count |-> Len(entries),
                                 fresh |-> TRUE,
                                 previous |-> PreviousUpload,
                                 storage |-> <<chunk_blocks_map, chunk_holes,
                                               chunk_buffer>>]
    /\ chunk_blocks_map' = iterated(chunk_blocks_map)
    /\ UNCHANGED <<chunk_holes, chunk_buffer, updated, drawn, world_vars,
                   cull_vars>>

\* the chunk positions given to update: one more than the storage holds
GpuChunkPositions == {Pos(i, 0) : i \in 0 .. Capacity}

\* the updates given to update: the first and the last block of a chunk,
\* written, removed, written twice and written after a removal
Updates ==
    { <<>>,
      <<ChunkUpdate(0, Some(1))>>,
      <<ChunkUpdate(BLOCKS_PER_GPU_CHUNK - 1, Some(1))>>,
      <<ChunkUpdate(0, None)>>,
      <<ChunkUpdate(0, Some(1)), ChunkUpdate(BLOCKS_PER_GPU_CHUNK - 1, Some(2))>>,
      <<ChunkUpdate(0, Some(1)), ChunkUpdate(0, Some(2))>>,
      <<ChunkUpdate(0, Some(1)), ChunkUpdate(0, None)>>,
      <<ChunkUpdate(0, None), ChunkUpdate(0, Some(2))>> }

vars ==
    <<chunks, block_registry, checked, visible_faces, culled, pass, indexed,
      gpu_vars>>

Init ==
    /\ \E registry \in Registries : WorldNew(registry)
    /\ GpuChunkStorageNew(Capacity)
    /\ updated = NoCall
    /\ uploaded = NoCall
    /\ drawn = NoCall
    /\ checked = NoCall
    /\ visible_faces = <<>>
    /\ culled = NoCall
    /\ pass = NoCall
    /\ indexed = NoCall

(***************************************************************************)
(* cull_faces on the world, the one-block dig of test_chunk_dig_one_block  *)
(* and a look at single blocks of the culled world                         *)
(***************************************************************************)
\* the cell <<y, x, z>> of world.chunks.get_mut(&p).unwrap().blocks[63][1][1] = 0
DIG_CELL == <<63, 1, 1>>

\* block positions (x, y, z) looked at after a cull: the dug cell, its
\* neighbours, a top corner of the slab and a floor block
CullProbes ==
    { <<1, 63, 1>>, <<0, 63, 1>>, <<2, 63, 1>>, <<1, 62, 1>>, <<1, 64, 1>>,
      <<15, 63, 15>>, <<8, 0, 8>> }

CullFaces ==
    /\ checked = NoCall
    /\ IF culled = NoCall THEN TRUE ELSE culled.world # chunks
    /\ visible_faces' = cull_faces(chunks, block_registry)
    /\ culled' = [op |-> "cull_faces", world |-> chunks]
    /\ UNCHANGED <<world_vars, checked, pass, indexed, gpu_vars>>

Dig(chunk_position) ==
    /\ checked = NoCall
    /\ culled # NoCall
    /\ SetBlock(chunk_position, DIG_CELL, 0)
    /\ UNCHANGED cull_vars

\* the call cull_faces_for_chunk makes for one block of a chunk
CheckOwnBlock(chunk_position, block_position) ==
    /\ chunk_position \in DOMAIN chunks
    /\ culled # NoCall /\ culled.world = chunks
    /\ CheckBlock(blocks(chunks[chunk_position], block_position[2],
                         block_position[1], block_position[3]),
                  chunk_position, block_position)

NextCull ==
    \/ /\ culled = NoCall
       /\ \E p \in ChunkPositions : InsertChunk(p) \/ FillSlab(p)
       /\ UNCHANGED cull_vars
    \/ CullFaces
    \/ \E p \in ChunkPositions : Dig(p)
    \/ \E p \in ChunkPositions, b \in CullProbes : CheckOwnBlock(p, b)

SpecCull == Init /\ [][NextCull]_vars

\* the world is built, then the function is called on it
NextBlock ==
    \/ checked = NoCall /\ BuildWorld /\ UNCHANGED cull_vars
    \/ \E id \in BlockTypeIds(block_registry), p \in ChunkPositions,
          b \in ProbePositions : CheckBlock(id, p, b)

SpecBlock == Init /\ [][NextBlock]_vars

(***************************************************************************)
(* culling/mod.rs: update_visible_faces on a world that was culled and     *)
(* then edited                                                             *)
(***************************************************************************)
\* slip: the new faces are appended to the entry of the chunk
update_visible_faces_extend(world_chunks, registry, visible, chunk_positions) ==
    LET entry(map, q) == IF q \in DOMAIN map THEN map[q] ELSE <<>>
        after[n \in 0 .. Len(chunk_positions)] ==
            IF n = 0 THEN [visible_faces |-> visible, result |-> "ok"]
            ELSE IF after[n - 1].result = "panic" THEN after[n - 1]
            ELSE IF chunk_positions[n] \notin DOMAIN world_chunks
            THEN [visible_faces |-> after[n - 1].visible_faces,
                  result |-> "panic"]
            ELSE [visible_faces |->
                      MapInsert(after[n - 1].visible_faces,
                          chunk_positions[n],
                          entry(after[n - 1].visible_faces,
                                chunk_positions[n]) \o
                          cull_faces_for_chunk(world_chunks, registry,
                              world_chunks[chunk_positions[n]],
                              chunk_positions[n])),
                  result |-> "ok"]
    IN  after[Len(chunk_positions)]

\* slip: a position that is not loaded is passed over and the loop goes on
update_visible_faces_skip(world_chunks, registry, visible, chunk_positions) ==
    LET after[n \in 0 .. Len(chunk_positions)] ==
            IF n = 0 THEN [visible_faces |-> visible, result |-> "ok"]
            ELSE IF chunk_positions[n] \notin DOMAIN world_chunks
            THEN after[n - 1]
            ELSE [visible_faces |->
                      MapInsert(after[n - 1].visible_faces,
                          chunk_positions[n],
                          cull_faces_for_chunk(world_chunks, registry,
                              world_chunks[chunk_positions[n]],
                              chunk_positions[n])),
                  result |-> "ok"]
    IN  after[Len(chunk_positions)]

\* the loop of update_visible_faces: world.chunks.get(p).unwrap() panics
\* for a position that is not loaded, after the entries before it were
\* written
update_visible_faces(world_chunks, registry, visible, chunk_positions) ==
    LET after[n \in 0 .. Len(chunk_positions)] ==
            IF n = 0 THEN [visible_faces |-> visible, result |-> "ok"]
            ELSE IF after[n - 1].result = "panic" THEN after[n - 1]
            ELSE IF chunk_positions[n] \notin DOMAIN world_chunks
            THEN [visible_faces |-> after[n - 1].visible_faces,
                  result |-> "panic"]
            ELSE [visible_faces |->
                      MapInsert(after[n - 1].visible_faces,
                          chunk_positions[n],
                          cull_faces_for_chunk(world_chunks, registry,
                              world_chunks[chunk_positions[n]],
                              chunk_positions[n])),
                  result |-> "ok"]
    IN  after[Len(chunk_positions)]

\* the two chunk positions of the edited world: a chunk and its East
\* neighbour
RecullChunkPositions == {Pos(0, 0), Pos(1, 0)}

\* the cell <<y, x, z>> of a chunk that faces the other chunk
RecullCell(chunk_position) ==
    IF chunk_position = Pos(0, 0) THEN <<1, 15, 8>> ELSE <<1, 0, 8>>

\* the slices of chunk positions given to update_visible_faces
RecullSlices ==
    { <<>>, <<Pos(0, 0)>>, <<Pos(1, 0)>>, <<Pos(0, 0), Pos(1, 0)>>,
      <<Pos(1, 0), Pos(0, 0)>>, <<Pos(0, 0), Pos(0, 0)>> }

\* a chunk is loaded (anew) before the first cull or once after a cull
LoadChunk(chunk_position) ==
    /\ checked = NoCall
    /\ IF culled = NoCall THEN TRUE
       ELSE culled.op = "cull_faces" /\ culled.world = chunks
    /\ InsertChunk(chunk_position)
    /\ UNCHANGED cull_vars

\* a block is placed or removed before the first cull or once after a cull
PlaceBlock(chunk_position, block_type_id) ==
    /\ checked = NoCall
    /\ IF culled = NoCall THEN TRUE
       ELSE culled.op = "cull_faces" /\ culled.world = chunks
    /\ SetBlock(chunk_position, RecullCell(chunk_position), block_type_id)
    /\ UNCHANGED cull_vars

UpdateVisibleFaces(chunk_positions) ==
    /\ checked = NoCall
    /\ IF culled = NoCall THEN FALSE
       ELSE culled.op = "cull_faces" /\ culled.world # chunks
    /\ LET done == update_visible_faces(chunks, block_registry,
                                        visible_faces, chunk_positions)
       IN  /\ visible_faces' = done.visible_faces
           /\ culled' = [op |-> "update_visible_faces",
                         world |-> chunks,
                         chunk_positions |-> chunk_positions,
                         before |-> visible_faces,
                         result |-> done.result]
    /\ UNCHANGED <<world_vars, checked, pass, indexed, gpu_vars>>

NextRecull ==
    \/ \E p \in RecullChunkPositions : LoadChunk(p)
    \/ \E p \in RecullChunkPositions, id \in {0, STONE_ID} : PlaceBlock(p, id)
    \/ CullFaces
    \/ \E slice \in RecullSlices : UpdateVisibleFaces(slice)

SpecRecull == Init /\ [][NextRecull]_vars

(***************************************************************************)
(* check_visible_faces_for_block in worlds of any registry: block_types    *)
(* and BlockType.transparent are public fields, and World::new takes the   *)
(* registry it is given                                                    *)
(***************************************************************************)
\* a registry whose block_types[0].transparent was set to false
BlockRegistrySolidAir ==
    [BlockRegistryGlass EXCEPT ![1].transparent = FALSE]

AnyRegistries == {BlockRegistryGlass, BlockRegistrySolidAir}

\* block positions (x, y, z) inside a chunk, on its East edge and on the
\* floor
RegistryProbes == { <<8, 1, 8>>, <<15, 1, 8>>, <<8, 0, 8>> }

InitRegistry ==
    /\ \E registry \in AnyRegistries : WorldNew(registry)
    /\ GpuChunkStorageNew(Capacity)
    /\ updated = NoCall
    /\ uploaded = NoCall
    /\ drawn = NoCall
    /\ checked = NoCall
    /\ visible_faces = <<>>
    /\ culled = NoCall
    /\ pass = NoCall
    /\ indexed = NoCall

NextRegistry ==
    \/ checked = NoCall /\ BuildWorld /\ UNCHANGED cull_vars
    \/ \E id \in BlockTypeIds(block_registry), p \in ChunkPositions,
          b \in RegistryProbes : CheckBlock(id, p, b)

SpecRegistry == InitRegistry /\ [][NextRegistry]_vars

(***************************************************************************)
(* render_faces/mod.rs: RenderFacesPipeline::new and render_cube_faces,    *)
(* and the frames of main.rs that call it                                  *)
(***************************************************************************)
\* GpuChunkStorage::new(allocator, 1)
PIPELINE_CHUNKS == 1

GpuBlockNew == [voxel_offset |-> 0, voxel_len |-> 2, connected_bits |-> 0]

\* slip: the updates cover one layer of the chunk
chunk_updates_layer ==
    [i \in 1 .. (16 * 16) |-> ChunkUpdate(i - 1, Some(GpuBlockNew))]

\* (0..16 * 16 * 16).map(|i| ChunkUpdate { block_index: i, block: Some(..) })
chunk_updates ==
    [i \in 1 .. (16 * 16 * 16) |-> ChunkUpdate(i - 1, Some(GpuBlockNew))]

\* two of the orders in which the HashSet of the chunk may yield its block
\* indices: ascending and descending
PipelineOrders(block_indices) ==
    LET n == Cardinality(block_indices)
    IN  IF block_indices = 0 .. (n - 1)
        THEN {[i \in 1 .. n |-> i - 1], [i \in 1 .. n |-> n - i]}
        ELSE {}

\* the instants of camera_fn: the camera of a frame
Cameras == 0 .. 9

\* builder.draw_mesh_tasks([16u32.pow(3), 1, 1])
draw_mesh_tasks == <<16 ^ 3, 1, 1>>

\* the part of RenderFacesPipeline::new that builds the storage: new,
\* update of the chunk at (0, 0) and upload_indices
PipelineNew ==
    /\ drawn = NoCall
    /\ LET holes == chunk_holes_new(PIPELINE_CHUNKS)
           chunk_position == Pos(0, 0)
           chunk_index == pop_value(holes)
           done == update_loop({}, <<>>, chunk_index, chunk_updates)
           map == MapInsert(<<>>, chunk_position,
                            <<chunk_index, done.block_indices>>)
       IN  \E block_order \in PipelineOrders(done.block_indices) :
              LET entries == upload_entries(map, <<chunk_position>>,
                                 [p \in {chunk_position} |-> block_order])
              IN  /\ chunk_holes' = pop_rest(holes)
                  /\ chunk_blocks_map' = map
                  /\ chunk_buffer' = done.buffer
                  /\ index_buffer' = write_indices(<<>>, entries)
                  /\ updated' = [op |-> "update",
                                 call |-> 1,
                                 chunk_position |-> chunk_position,
                                 was_mapped |-> FALSE,
                                 mapped_before |-> 0,
                                 result |-> "ok"]
                  /\ uploaded' = [op |-> "upload_indices",
                                  count |-> Len(entries),
                                  fresh |-> TRUE,
                                  previous |-> NoCall,
                                  storage |-> <<map, pop_rest(holes),
                                                done.buffer>>]
    /\ drawn' = [op |-> "new"]
    /\ UNCHANGED <<world_vars, cull_vars>>

\* a frame of main.rs: render_cube_faces with the camera of the frame and
\* the camera of the frame before
RenderCubeFaces(previous_camera, camera) ==
    /\ drawn # NoCall
    /\ IF drawn.op = "render_cube_faces"
       THEN previous_camera = drawn.camera
       ELSE TRUE
    /\ drawn' = [op |-> "render_cube_faces",
                 previous_camera |-> previous_camera,
                 camera |-> camera,
                 group_counts |-> draw_mesh_tasks,
                 uploaded |-> [op |-> uploaded.op,
                               count |-> uploaded.count,
                               fresh |-> uploaded.fresh]]
    /\ UNCHANGED <<chunk_blocks_map, chunk_holes, chunk_buffer, index_buffer,
                   updated, uploaded, world_vars, cull_vars>>

NextRender ==
    \/ PipelineNew
    \/ \E previous_camera \in Cameras, camera \in Cameras :
          RenderCubeFaces(previous_camera, camera)

SpecRender == Init /\ [][NextRender]_vars

(***************************************************************************)
(* culling/mod.rs: a pass of cull_faces on the rayon thread pool. A job is *)
(* a chunk of world.chunks.par_iter() and a range of the layers of         *)
(* chunk.blocks.par_iter(); the jobs run in any order, each reads the      *)
(* world and returns its own list, and collect puts the lists of a chunk   *)
(* together in the order of the layers.                                    *)
(***************************************************************************)
\* the ranges of layers the pool splits a chunk into: a split inside the
\* slab
LayerJobs == << <<0, SLAB_TOP \div 2>>, <<SLAB_TOP \div 2, CHUNK_HEIGHT>> >>

Jobs(world_chunks) == (DOMAIN world_chunks) \X (DOMAIN LayerJobs)

\* slip: collect keeps the list of the job that finished last
collect_chunk_last(pass_done, pass_order, chunk_position) ==
    LET of_chunk == SelectSeq(pass_order, LAMBDA job : job[1] = chunk_position)
    IN  pass_done[of_chunk[Len(of_chunk)]]

\* collect: the lists of the jobs of a chunk in the order of their layers
collect_chunk(pass_done, pass_order, chunk_position) ==
    LET from[k \in 1 .. (Len(LayerJobs) + 1)] ==
            IF k > Len(LayerJobs) THEN <<>>
            ELSE pass_done[<<chunk_position, k>>] \o from[k + 1]
    IN  from[1]

\* the jobs ran as no sequential run does: the upper layers of a chunk, then
\* a job of another chunk, then the lower layers of the first chunk
Interleaved(pass_order) ==
    \E i, j, k \in DOMAIN pass_order :
        /\ i < j
        /\ j < k
        /\ pass_order[i][1] = pass_order[k][1]
        /\ pass_order[j][1] # pass_order[i][1]
        /\ pass_order[i][2] > pass_order[k][2]

\* a chunk is loaded or filled before the pass
BuildBeforePass ==
    /\ pass = NoCall
    /\ culled = NoCall
    /\ \/ \E p \in RecullChunkPositions : InsertChunk(p)
       \/ FillSlab(Pos(0, 0))
    /\ UNCHANGED cull_vars

StartPass ==
    /\ pass = NoCall
    /\ culled = NoCall
    /\ pass' = [op |-> "running", done |-> <<>>, order |-> <<>>]
    /\ UNCHANGED <<world_vars, checked, visible_faces, culled, indexed,
                   gpu_vars>>

\* a worker thread runs a job that has not run yet
RunJob(job) ==
    /\ pass # NoCall
    /\ pass.op = "running"
    /\ job \in Jobs(chunks) \ DOMAIN pass.done
    /\ pass' = [pass EXCEPT
                   !.done = MapInsert(@, job,
                                cull_layers(chunks, block_registry,
                                    chunks[job[1]], job[1], LayerJobs[job[2]])),
                   !.order = Append(@, job)]
    /\ UNCHANGED <<world_vars, checked, visible_faces, culled, indexed,
                   gpu_vars>>

\* every job has run: the lists are collected into the map
Collect ==
    /\ pass # NoCall
    /\ pass.op = "running"
    /\ DOMAIN pass.done = Jobs(chunks)
    /\ visible_faces' =
          [p \in DOMAIN chunks |-> collect_chunk(pass.done, pass.order, p)]
    /\ culled' = [op |-> "cull_faces", world |-> chunks]
    /\ pass' = [op |-> "collected", interleaved |-> Interleaved(pass.order)]
    /\ UNCHANGED <<world_vars, checked, indexed, gpu_vars>>

NextPass ==
    \/ BuildBeforePass
    \/ StartPass
    \/ \E job \in RecullChunkPositions \X (DOMAIN LayerJobs) : RunJob(job)
    \/ Collect

SpecPass == Init /\ [][NextPass]_vars

(***************************************************************************)
(* render_faces/mod.rs: GpuChunkStorage given block indices at and beyond  *)
(* the end of a chunk                                                      *)
(***************************************************************************)
\* updates at the last block of a chunk and one past it: written, removed,
\* and written between two writes that are in bounds
EdgeUpdates ==
    { <<ChunkUpdate(BLOCKS_PER_GPU_CHUNK - 1, Some(1))>>,
      <<ChunkUpdate(BLOCKS_PER_GPU_CHUNK, Some(1))>>,
      <<ChunkUpdate(BLOCKS_PER_GPU_CHUNK, None)>>,
      <<ChunkUpdate(0, Some(1)), ChunkUpdate(BLOCKS_PER_GPU_CHUNK, Some(2)),
        ChunkUpdate(1, Some(3))>> }

\* a frame: the storage is updated, then its index is rebuilt
NextBounds ==
    \/ /\ uploaded = NoCall
       /\ \E p \in GpuChunkPositions, updates \in EdgeUpdates :
             Update(p, updates)
    \/ /\ uploaded = NoCall
       /\ UploadIndices

SpecBounds == Init /\ [][NextBounds]_vars

\* the storage is updated for one chunk position more than it holds
NextGpu ==
    \E p \in GpuChunkPositions, updates \in Updates : Update(p, updates)

SpecGpu == Init /\ [][NextGpu]_vars

\* the chunk positions of the frames below
IndexChunkPositions == {Pos(0, 0), Pos(1, 0)}

\* frames: the storage is updated and its index rebuilt, in any order
NextIndex ==
    \/ \E p \in IndexChunkPositions, updates \in Updates : Update(p, updates)
    \/ UploadIndices

SpecIndex == Init /\ [][NextIndex]_vars

(***************************************************************************)
(* types.rs: World indexed by a world coordinate [x, y, z]                 *)
(* (impl Index / IndexMut<[i32; 3]> for World), fill_cuboid, fill_sphere   *)
(***************************************************************************)
\* i32 `/` and `%`: the quotient is truncated toward zero and the
\* remainder takes the sign of the dividend
Quot(a, b) == IF a >= 0 THEN a \div b ELSE -((-a) \div b)

Rem(a, b) == a - (b * Quot(a, b))

\* ChunkPosition { x: index[0] / 16, z: index[2] / 16 }
index_chunk_position(world_index) ==
    Pos(Quot(world_index[1], CHUNK_WIDTH), Quot(world_index[3], CHUNK_WIDTH))

\* the three array indices of
\* chunk.blocks[(index[0] % 16)][(index[2] % 16)][(index[1] % 256)]
index_place(world_index) ==
    << Rem(world_index[1], CHUNK_WIDTH), Rem(world_index[3], CHUNK_WIDTH),
       Rem(world_index[2], CHUNK_HEIGHT) >>

\* the bounds checks of [[[BlockTypeId; 16]; 16]; 256] on the three indices
\* cast `as usize` (a negative remainder becomes a value above every length)
place_in_bounds(place) == InArray(place[1], place[2], place[3])

\* world[index]; a read that panics returns no value (held as 0)
index(world_chunks, world_index) ==
    LET chunk_position == index_chunk_position(world_index)
        place          == index_place(world_index)
    IN  IF chunk_position \in DOMAIN world_chunks
        THEN IF place_in_bounds(place)
             THEN [result |-> "ok",
                   value  |-> blocks(world_chunks[chunk_position],
                                     place[1], place[2], place[3])]
             ELSE [result |-> "panic", value |-> 0]
        ELSE [result |-> "ok", value |-> 0]

\* world[index] = block_type_id: the chunk is entered (and inserted when it
\* was absent) before the cell is indexed
index_mut(world_chunks, world_index, block_type_id) ==
    LET chunk_position == index_chunk_position(world_index)
        place          == index_place(world_index)
        entered        == IF chunk_position \in DOMAIN world_chunks
                          THEN world_chunks
                          ELSE MapInsert(world_chunks, chunk_position,
                                         ChunkDefault)
    IN  IF place_in_bounds(place)
        THEN [result |-> "ok",
              chunks |-> [entered EXCEPT ![chunk_position] =
                             blocks_set(@, place[1], place[2], place[3],
                                        block_type_id)]]
        ELSE [result |-> "panic", chunks |-> entered]

\* for x in min[0]..max[0] { for y in min[1]..max[1] { for z in min[2]..max[2]
cuboid_cells(min, max) ==
    LET ny == max[2] - min[2]
        nz == max[3] - min[3]
        n  == (max[1] - min[1]) * ny * nz
    IN  [i \in 1 .. n |->
            << min[1] + ((i - 1) \div (ny * nz)),
               min[2] + (((i - 1) \div nz) % ny),
               min[3] + ((i - 1) % nz) >>]

\* if dx * dx + dy * dy + dz * dz <= radius * radius
InSphere(center, radius, cell) ==
    LET dx == cell[1] - center[1]
        dy == cell[2] - center[2]
        dz == cell[3] - center[3]
    IN  (dx * dx) + (dy * dy) + (dz * dz) <= radius * radius

sphere_cells(center, radius) ==
    LET min  == << center[1] - radius, center[2] - radius,
                   center[3] - radius >>
        max  == << center[1] + radius, center[2] + radius,
                   center[3] + radius >>
        Near(cell) == InSphere(center, radius, cell)
    IN  SelectSeq(cuboid_cells(min, max), Near)

\* self[[x, y, z]] = block_type_id for the cells in loop order, up to the
\* first write that panics
RECURSIVE fill_cells(_, _, _)
fill_cells(world_chunks, cells, block_type_id) ==
    IF cells = <<>>
    THEN [result |-> "ok", chunks |-> world_chunks]
    ELSE LET written == index_mut(world_chunks, Head(cells), block_type_id)
         IN  IF written.result = "panic"
             THEN written
             ELSE fill_cells(written.chunks, Tail(cells), block_type_id)

fill_cuboid(world_chunks, min, max, block_type_id) ==
    fill_cells(world_chunks, cuboid_cells(min, max), block_type_id)

fill_sphere(world_chunks, center, radius, block_type_id) ==
    fill_cells(world_chunks, sphere_cells(center, radius), block_type_id)

\* the most cells of the world that hold a block before a further write
MaxIndexed == 2

\* world coordinates [x, y, z] written and read: the origin, a step along
\* each axis, a cell with equal coordinates, a cell of the chunk to the
\* East, the first layer above 15, the top layer and a negative x
WorldIndices ==
    { <<0, 0, 0>>, <<1, 0, 0>>, <<0, 1, 0>>, <<0, 0, 1>>, <<3, 3, 3>>,
      <<17, 3, 2>>, <<0, 16, 0>>, <<5, 255, 5>>, <<-1, 0, 0>> }

\* the corners [min, max) of the cuboids filled
Cuboids == { << <<0, 0, 0>>, <<1, 2, 2>> >>, << <<4, 15, 4>>, <<5, 17, 5>> >> }

\* the centers of the spheres filled, with radius 1
SphereCenters == { <<2, 2, 2>>, <<8, 16, 8>> }

WorldValues == {0, STONE_ID}

CanWrite(result) ==
    /\ Cardinality(WrittenCells(chunks)) < MaxIndexed
    /\ Cardinality(DOMAIN result.chunks) <= MaxChunks

WorldIndexMut(world_index, block_type_id) ==
    LET written == index_mut(chunks, world_index, block_type_id)
    IN  /\ CanWrite(written)
        /\ chunks' = written.chunks
        /\ indexed' = [op |-> "index_mut", cells |-> <<world_index>>,
                       value |-> block_type_id, result |-> written.result,
                       before |-> chunks]
        /\ UNCHANGED <<block_registry, checked, visible_faces, culled, pass,
                       gpu_vars>>

WorldIndex(world_index) ==
    LET read == index(chunks, world_index)
    IN  /\ indexed' = [op |-> "index", cells |-> <<world_index>>,
                       value |-> read.value, result |-> read.result,
                       before |-> chunks]
        /\ UNCHANGED <<world_vars, checked, visible_faces, culled, pass,
                       gpu_vars>>

FillCuboid(min, max, block_type_id) ==
    LET filled == fill_cuboid(chunks, min, max, block_type_id)
    IN  /\ CanWrite(filled)
        /\ chunks' = filled.chunks
        /\ indexed' = [op |-> "fill_cuboid", cells |-> cuboid_cells(min, max),
                       value |-> block_type_id, result |-> filled.result,
                       before |-> chunks]
        /\ UNCHANGED <<block_registry, checked, visible_faces, culled, pass,
                       gpu_vars>>

FillSphere(center, radius, block_type_id) ==
    LET filled == fill_sphere(chunks, center, radius, block_type_id)
    IN  /\ CanWrite(filled)
        /\ chunks' = filled.chunks
        /\ indexed' = [op |-> "fill_sphere",
                       cells |-> sphere_cells(center, radius),
                       value |-> block_type_id, result |-> filled.result,
                       before |-> chunks]
        /\ UNCHANGED <<block_registry, checked, visible_faces, culled, pass,
                       gpu_vars>>

NextWorld ==
    \/ \E i \in WorldIndices, b \in WorldValues : WorldIndexMut(i, b)
    \/ \E i \in WorldIndices : WorldIndex(i)
    \/ \E c \in Cuboids, b \in WorldValues : FillCuboid(c[1], c[2], b)
    \/ \E c \in SphereCenters, b \in WorldValues : FillSphere(c, 1, b)

SpecWorld == Init /\ [][NextWorld]_vars

(***************************************************************************)
(* Vocabulary of the properties: the world cell next to a block, found by  *)
(* world coordinates (chunk position * 16 + local coordinate)              *)
(***************************************************************************)
Called == checked.op = "check"

FaceDirections(faces) == {faces[i].direction : i \in 1 .. Len(faces)}

Opaque(block_type_id) ==
    block_type_id # 0 /\ ~block_registry[block_type_id + 1].transparent

TransparentNonAir(block_type_id) ==
    block_type_id # 0 /\ block_registry[block_type_id + 1].transparent

\* what lies next to block_position of the chunk at chunk_position, in
\* direction d: nothing (above or below the world), an unloaded chunk, or a
\* block of the chunk `of` at local cell <<y, x, z>>
NeighborCell(chunk_position, block_position, d) ==
    LET gx == chunk_position.x * 16 + block_position[1] + to_offset(d)[1]
        gy == block_position[2] + to_offset(d)[2]
        gz == chunk_position.z * 16 + block_position[3] + to_offset(d)[3]
        owner == Pos(gx \div 16, gz \div 16)
    IN  IF gy < 0 \/ gy > 255 THEN [kind |-> "void"]
        ELSE IF owner \notin DOMAIN chunks THEN [kind |-> "unloaded"]
        ELSE [kind |-> "block", of |-> owner,
              id |-> blocks(chunks[owner], gy, gx % 16, gz % 16)]

CheckedNeighbor(d) ==
    NeighborCell(checked.chunk_position, checked.block_position, d)

NeighborOpaque(d) ==
    CheckedNeighbor(d).kind = "block" /\ Opaque(CheckedNeighbor(d).id)

NeighborTransparent(d) ==
    CheckedNeighbor(d).kind = "block" /\ ~Opaque(CheckedNeighbor(d).id)

\* the neighbouring cell in direction d belongs to another chunk position
AcrossEdge(d) ==
    LET n == Neighbor(checked.block_position, d)
    IN  n[1] \notin 0 .. 15 \/ n[3] \notin 0 .. 15

\* C1: a call for a block of id 0 returns no face, whatever the position,
\* the neighbouring blocks and the loaded chunks are
C1_AirHasNoFaces ==
    (Called /\ checked.block_type_id = 0) => checked.faces = <<>>

C1_Witness ==
    /\ Called /\ checked.block_type_id = 0
    /\ checked.faces = <<>>
    /\ \E d \in Direction : NeighborOpaque(d)
    /\ \E d \in Direction : AcrossEdge(d) /\ NeighborTransparent(d)

\* C2: a call for a non-air block of a transparent type returns exactly six
\* faces of that block, one per Direction
C2_TransparentHasSixFaces ==
    (Called /\ TransparentNonAir(checked.block_type_id)) =>
        /\ Len(checked.faces) = 6
        /\ FaceDirections(checked.faces) = Direction
        /\ \A i \in 1 .. Len(checked.faces) :
              /\ checked.faces[i].position = checked.block_position
              /\ checked.faces[i].block_type_id = checked.block_type_id

C2_Witness ==
    /\ Called /\ TransparentNonAir(checked.block_type_id)
    /\ Len(checked.faces) = 6
    /\ \E d \in Direction : CheckedNeighbor(d).kind = "unloaded"
    /\ \E d \in Direction : CheckedNeighbor(d).kind = "void"
    /\ \E d \in Direction : NeighborOpaque(d)

\* C3: a call for an opaque block whose six neighbouring cells all hold
\* opaque blocks, in its chunk or in a loaded neighbouring chunk, returns no
\* face
C3_SurroundedHasNoFaces ==
    (/\ Called /\ Opaque(checked.block_type_id)
     /\ \A d \in Direction : NeighborOpaque(d)) => checked.faces = <<>>

C3_Witness ==
    /\ Called /\ Opaque(checked.block_type_id)
    /\ \A d \in Direction : NeighborOpaque(d)
    /\ \E d \in Direction : AcrossEdge(d)
    /\ checked.faces = <<>>

\* C4: a call for an opaque block at y = 255 returns its Up face and one at
\* y = 0 its Down face, and no call indexes a cell outside a chunk array
C4_VerticalBoundaryFaces ==
    Called =>
        /\ (Opaque(checked.block_type_id) /\ checked.block_position[2] = 255)
              => "Up" \in FaceDirections(checked.faces)
        /\ (Opaque(checked.block_type_id) /\ checked.block_position[2] = 0)
              => "Down" \in FaceDirections(checked.faces)
        /\ \A r \in checked.reads : InArray(r[2], r[3], r[4])

C4_Witness ==
    /\ Called /\ Opaque(checked.block_type_id)
    /\ checked.block_position[2] = 255
    /\ FaceDirections(checked.faces) = {"Up", "Down", "North", "West"}
    /\ \E d \in Direction : CheckedNeighbor(d).kind = "unloaded"

\* the horizontal directions in which the checked block's neighbouring cell
\* lies outside its chunk
EdgeFacing == {d \in Direction : AcrossEdge(d)}

NoNeighborChunkLoaded ==
    \A d \in {"North", "South", "East", "West"} :
        NeighborChunkPosition(checked.chunk_position, d) \notin DOMAIN chunks

\* C5 as stated: an opaque block on a horizontal edge of its chunk, with no
\* neighbouring chunk loaded, has exactly five faces, every direction but
\* the edge-facing one
C5_EdgeHasFiveFaces ==
    (/\ Called /\ Opaque(checked.block_type_id)
     /\ EdgeFacing # {} /\ NoNeighborChunkLoaded) =>
        /\ Len(checked.faces) = 5
        /\ \E d \in EdgeFacing :
              FaceDirections(checked.faces) = Direction \ {d}

\* C5 amended: with no neighbouring chunk loaded, no edge-facing face of an
\* opaque block is returned, and any other face is returned exactly when its
\* neighbouring cell is beyond the floor or ceiling or holds a transparent
\* block; so five faces are returned when the block is on one edge only and
\* its five other neighbouring cells are of that kind
C5_EdgeFacesUnloaded ==
    (/\ Called /\ Opaque(checked.block_type_id)
     /\ EdgeFacing # {} /\ NoNeighborChunkLoaded) =>
        /\ FaceDirections(checked.faces) =
              {d \in Direction \ EdgeFacing :
                  CheckedNeighbor(d).kind = "void" \/ NeighborTransparent(d)}
        /\ Len(checked.faces) = Cardinality(FaceDirections(checked.faces))
        /\ (/\ Cardinality(EdgeFacing) = 1
            /\ \A d \in Direction \ EdgeFacing : ~NeighborOpaque(d))
              => (/\ Len(checked.faces) = 5
                  /\ FaceDirections(checked.faces) = Direction \ EdgeFacing)

C5_Witness ==
    /\ Called /\ Opaque(checked.block_type_id)
    /\ NoNeighborChunkLoaded
    /\ EdgeFacing = {"West"}
    /\ Len(checked.faces) = 5
    /\ "West" \notin FaceDirections(checked.faces)

\* the local coordinate on the far side of a chunk edge
Mirrored(v) == IF v = 15 THEN 0 ELSE IF v = 0 THEN 15 ELSE v

\* the cell of the neighbouring chunk that faces the checked block in
\* direction d: same y, the coordinate along d mirrored
MirroredBlock(d) ==
    LET b == checked.block_position
        ncp == Pos(checked.chunk_position.x + to_offset(d)[1],
                   checked.chunk_position.z + to_offset(d)[3])
    IN  IF d \in {"East", "West"}
        THEN blocks(chunks[ncp], b[2], Mirrored(b[1]), b[3])
        ELSE blocks(chunks[ncp], b[2], b[1], Mirrored(b[3]))

EdgeLoaded(d) ==
    /\ d \in {"North", "South", "East", "West"}
    /\ AcrossEdge(d)
    /\ NeighborChunkPosition(checked.chunk_position, d) \in DOMAIN chunks

\* C6: for an opaque block on a horizontal chunk edge whose neighbouring
\* chunk in that direction is loaded, the edge-facing face is returned iff
\* the block at the mirrored coordinate and the same y of that chunk is
\* transparent
C6_EdgeFaceIffNeighborTransparent ==
    (Called /\ Opaque(checked.block_type_id)) =>
        \A d \in Direction :
            EdgeLoaded(d) =>
                (d \in FaceDirections(checked.faces)
                    <=> ~Opaque(MirroredBlock(d)))

\* the edge-facing face is hidden by an opaque block across the edge while
\* the cell of that chunk at the unmirrored coordinate is air
C6_Witness ==
    /\ Called /\ Opaque(checked.block_type_id)
    /\ \E d \in Direction :
          /\ EdgeLoaded(d)
          /\ Opaque(MirroredBlock(d))
          /\ d \notin FaceDirections(checked.faces)
          /\ blocks(chunks[NeighborChunkPosition(checked.chunk_position, d)],
                    checked.block_position[2], checked.block_position[1],
                    checked.block_position[3]) = 0

(***************************************************************************)
(* Properties of cull_faces                                                *)
(***************************************************************************)
Culled == culled.op = "cull_faces"

RECURSIVE SumLen(_, _)
SumLen(map, keys) ==
    IF keys = {} THEN 0
    ELSE LET k == CHOOSE k \in keys : TRUE
         IN  Len(map[k]) + SumLen(map, keys \ {k})

TotalFaces == SumLen(visible_faces, DOMAIN visible_faces)

SlabChunk == blocks_fill(ChunkDefault, 1)

DugChunk == blocks_set(SlabChunk, 63, 1, 1, 0)

\* the culled world held one chunk, equal to `chunk`
CulledSingle(chunk) ==
    /\ Culled
    /\ Cardinality(DOMAIN culled.world) = 1
    /\ \A p \in DOMAIN culled.world : culled.world[p] = chunk

FacesAt(position) ==
    {<<p, i>> \in UNION {{p} \X (1 .. Len(visible_faces[p])) :
                             p \in DOMAIN visible_faces} :
        visible_faces[p][i].position = position}

\* C7: the cull of a world of one chunk that is stone for y in [0, 64) and
\* air above returns 16 * 16 * 2 = 512 faces; with the block at
\* (x, y, z) = (1, 63, 1) set to air it returns 516, none of them at the
\* vacated cell
C7_SlabAndDig ==
    /\ CulledSingle(SlabChunk) => TotalFaces = 16 * 16 * 2
    /\ CulledSingle(DugChunk) =>
          /\ TotalFaces = 16 * 16 * 2 + 4
          /\ FacesAt(<<1, 63, 1>>) = {}

\* the slab was culled, dug at (1, 63, 1) and culled again
C7_Witness ==
    /\ CulledSingle(DugChunk)
    /\ culled.world = chunks
    /\ TotalFaces = 516
    /\ Cardinality(FacesAt(<<1, 62, 1>>)) = 1
    /\ Cardinality(FacesAt(<<0, 63, 1>>)) = 2

(***************************************************************************)
(* Properties of GpuChunkStorage                                           *)
(***************************************************************************)
Updated == updated.op = "update"

SlotIds == {chunk_blocks_map[p][1] : p \in DOMAIN chunk_blocks_map}

HoleIds == {chunk_holes[i] : i \in DOMAIN chunk_holes}

\* C8: in a storage of capacity N the first update of a chunk position
\* succeeds and maps the position when fewer than N distinct positions were
\* mapped before it, and fails on the exhausted free list, leaving the
\* position unmapped, when N were: whatever the order of the positions and
\* the updates of mapped positions in between.
C8_FirstUpdatesUntilCapacity ==
    (Updated /\ ~updated.was_mapped) =>
        IF updated.mapped_before < Capacity
        THEN /\ updated.result = "ok"
             /\ updated.chunk_position \in DOMAIN chunk_blocks_map
        ELSE /\ updated.result = "panic"
             /\ updated.chunk_position \notin DOMAIN chunk_blocks_map

\* the update of one more position than the capacity, after an update of a
\* mapped position in between
C8_Witness ==
    /\ Updated
    /\ ~updated.was_mapped
    /\ updated.mapped_before = Capacity
    /\ updated.result = "panic"
    /\ updated.call = Capacity + 2
    /\ Cardinality(DOMAIN chunk_blocks_map) = Capacity

\* C9: the slot ids of the mapped chunk positions are pairwise distinct and
\* none of them is in chunk_holes, chunk_holes holds no id twice, and the
\* slot ids together with chunk_holes are the ids 0 .. N-1.
C9_SlotsPartition ==
    /\ \A p, q \in DOMAIN chunk_blocks_map :
          p # q => chunk_blocks_map[p][1] # chunk_blocks_map[q][1]
    /\ SlotIds \cap HoleIds = {}
    /\ \A i, j \in DOMAIN chunk_holes : i # j => chunk_holes[i] # chunk_holes[j]
    /\ SlotIds \cup HoleIds = 0 .. (Capacity - 1)

\* two positions are mapped and a slot is free or the list is used up
C9_Witness ==
    /\ Cardinality(DOMAIN chunk_blocks_map) >= 2
    /\ Len(chunk_holes) = Capacity - Cardinality(DOMAIN chunk_blocks_map)
    /\ Updated /\ updated.was_mapped

Rebuilt == uploaded.op = "upload_indices" /\ uploaded.fresh

Pairs(map) ==
    UNION {{<<map[p][1], b>> : b \in map[p][2]} : p \in DOMAIN map}

RECURSIVE OccupiedTotal(_, _)
OccupiedTotal(map, positions) ==
    IF positions = {} THEN 0
    ELSE LET p == CHOOSE q \in positions : TRUE
         IN  Cardinality(map[p][2]) + OccupiedTotal(map, positions \ {p})

\* C10: after any updates, upload_indices returns the sum of the sizes of
\* the occupied sets of the mapped chunk positions, and the first count
\* entries of the index buffer are, without a duplicate, exactly the pairs
\* (slot id, local index) of the occupied blocks.
C10_RebuildEnumeratesOccupied ==
    Rebuilt =>
        /\ uploaded.count =
              OccupiedTotal(chunk_blocks_map, DOMAIN chunk_blocks_map)
        /\ uploaded.count <= Len(index_buffer)
        /\ {index_buffer[i] : i \in 1 .. uploaded.count} =
              Pairs(chunk_blocks_map)
        /\ \A i, j \in 1 .. uploaded.count :
              i # j => index_buffer[i] # index_buffer[j]

\* a rebuild over two chunks with three occupied blocks, after a removal,
\* with entries of an earlier rebuild behind the count
C10_Witness ==
    /\ Rebuilt
    /\ uploaded.count = 3
    /\ Cardinality(DOMAIN chunk_blocks_map) = 2
    /\ Len(index_buffer) > uploaded.count

\* C11: a second upload_indices with no update in between returns the
\* count of the first and leaves the same set of pairs in the first count
\* entries, and a call changes none of chunk_blocks_map, chunk_holes and
\* the payloads of the chunk buffer.
C11_RebuildIdempotent ==
    Rebuilt =>
        /\ uploaded.storage = <<chunk_blocks_map, chunk_holes, chunk_buffer>>
        /\ uploaded.previous # NoCall =>
              /\ uploaded.count = uploaded.previous.count
              /\ IndexPairs(index_buffer, uploaded.count) =
                    uploaded.previous.pairs

\* a second rebuild in a row over two chunks and three occupied blocks
C11_Witness ==
    /\ Rebuilt
    /\ uploaded.previous # NoCall
    /\ uploaded.count = 3
    /\ Cardinality(DOMAIN chunk_blocks_map) = 2

(***************************************************************************)
(* Properties of cull_faces and update_visible_faces                       *)
(***************************************************************************)
FaceSet(faces) == {faces[i] : i \in DOMAIN faces}

\* C12: the map cull_faces returns has exactly the chunk positions of the
\* world as keys, and the faces under a position p are, as a set, those of
\* cull_faces_for_chunk for the chunk at p in that world.
C12_CullWorldPerChunk ==
    Culled =>
        /\ DOMAIN visible_faces = DOMAIN culled.world
        /\ \A p \in DOMAIN culled.world :
              FaceSet(visible_faces[p]) =
                 FaceSet(cull_faces_for_chunk(culled.world, block_registry,
                                              culled.world[p], p))

\* a culled world of two chunks, one with a block whose six faces show
C12_Witness ==
    /\ Culled
    /\ Cardinality(DOMAIN culled.world) = 2
    /\ \E p \in DOMAIN visible_faces : Len(visible_faces[p]) = 6
    /\ \E p \in DOMAIN visible_faces : visible_faces[p] = <<>>

Reculled == culled.op = "update_visible_faces"

ReculledPositions ==
    {culled.chunk_positions[i] : i \in DOMAIN culled.chunk_positions}

\* C13: update_visible_faces with positions that are all loaded leaves,
\* under every given position, the result of cull_faces_for_chunk on the
\* world as it is (in place of the entry before), and leaves the entry of
\* every other position, and its absence, as before.
C13_RecullReplacesGiven ==
    (Reculled /\ ReculledPositions \subseteq DOMAIN culled.world) =>
        /\ culled.result = "ok"
        /\ DOMAIN visible_faces = DOMAIN culled.before \cup ReculledPositions
        /\ \A p \in ReculledPositions :
              visible_faces[p] =
                 cull_faces_for_chunk(culled.world, block_registry,
                                      culled.world[p], p)
        /\ \A p \in DOMAIN culled.before \ ReculledPositions :
              visible_faces[p] = culled.before[p]

\* an entry with faces was replaced by a different one, and the entry of a
\* position that was not given was kept
C13_Witness ==
    /\ Reculled
    /\ ReculledPositions \subseteq DOMAIN culled.world
    /\ \E p \in ReculledPositions \cap DOMAIN culled.before :
          /\ culled.before[p] # <<>>
          /\ visible_faces[p] # culled.before[p]
    /\ DOMAIN culled.before \ ReculledPositions # {}

\* C14: whatever the registry holds at index 0, a face of an opaque block
\* whose neighbouring cell holds id 0 is returned.
C14_AirAlwaysTransparent ==
    (Called /\ Opaque(checked.block_type_id)) =>
        \A d \in Direction :
            (CheckedNeighbor(d).kind = "block" /\ CheckedNeighbor(d).id = 0)
                => d \in FaceDirections(checked.faces)

(***************************************************************************)
(* Properties of RenderFacesPipeline                                       *)
(***************************************************************************)
Drawn == drawn.op = "render_cube_faces"

Collected == pass.op = "collected"

\* C16: whatever the order in which the jobs of a pass ran, with the world
\* left alone during the pass, the faces collected for a chunk are those a
\* sequential cull_faces_for_chunk returns for it.
C16_PassAsSequential ==
    Collected =>
        /\ DOMAIN visible_faces = DOMAIN chunks
        /\ \A p \in DOMAIN chunks :
              FaceSet(visible_faces[p]) =
                 FaceSet(cull_faces_for_chunk(chunks, block_registry,
                                              chunks[p], p))

\* a pass over two chunks whose jobs ran interleaved, the upper layers of a
\* chunk before its lower ones, both with faces
C16_Witness ==
    /\ Collected
    /\ Cardinality(DOMAIN chunks) = 2
    /\ pass.interleaved
    /\ \E p \in DOMAIN visible_faces :
          \E i, j \in DOMAIN visible_faces[p] :
              /\ visible_faces[p][i].position[2] = 0
              /\ visible_faces[p][j].position[2] = SLAB_TOP - 1

(***************************************************************************)
(* Properties of check_visible_faces_for_block: one direction at a time    *)
(***************************************************************************)
Horizontal == {"North", "South", "East", "West"}

\* the neighbouring cell in direction d lies across a horizontal edge and no
\* chunk was loaded there when the call was made
EdgeUnloaded(d) ==
    /\ d \in Horizontal
    /\ AcrossEdge(d)
    /\ NeighborChunkPosition(checked.chunk_position, d) \notin checked.loaded

\* C17: for an opaque block and a horizontal direction whose neighbouring
\* cell is outside the chunk with no chunk loaded there, the call returns,
\* the face of that direction is not among its faces whatever else is
\* loaded, no cell of the missing chunk is read and the world holds the same
\* chunks after the call as before.
C17_UnloadedEdgeFaceHidden ==
    (Called /\ Opaque(checked.block_type_id)) =>
        \A d \in Direction :
            EdgeUnloaded(d) =>
                /\ d \notin FaceDirections(checked.faces)
                /\ \A r \in checked.reads :
                      r[1] # NeighborChunkPosition(checked.chunk_position, d)
                /\ DOMAIN chunks = checked.loaded

\* a block on a corner of its chunk: one edge faces a missing chunk and has
\* no face, the other faces a loaded chunk and has one
C17_Witness ==
    /\ Called /\ Opaque(checked.block_type_id)
    /\ \E d, e \in Horizontal :
          /\ EdgeUnloaded(d)
          /\ d \notin FaceDirections(checked.faces)
          /\ EdgeLoaded(e)
          /\ e \in FaceDirections(checked.faces)

\* the neighbouring cell in direction d is a cell of the checked block's own
\* chunk
InsideChunk(d) ==
    LET n == Neighbor(checked.block_position, d)
    IN  n[1] \in 0 .. 15 /\ n[2] \in 0 .. 255 /\ n[3] \in 0 .. 15

\* chunk.blocks[y + dy][x + dx][z + dz] of the checked block's chunk
InsideBlock(d) ==
    LET n == Neighbor(checked.block_position, d)
    IN  blocks(chunks[checked.chunk_position], n[2], n[1], n[3])

\* C18: for an opaque block and a direction whose neighbouring cell is in
\* the same chunk, the face is returned iff that cell holds id 0 or a block
\* type registered as transparent; an opaque block away from the edges whose
\* six neighbouring cells hold air has its six faces.
C18_InsideFaceIffTransparent ==
    (Called /\ Opaque(checked.block_type_id)) =>
        /\ \A d \in Direction :
              InsideChunk(d) =>
                  (d \in FaceDirections(checked.faces)
                      <=> \/ InsideBlock(d) = 0
                          \/ block_registry[InsideBlock(d) + 1].transparent)
        /\ (\A d \in Direction : InsideChunk(d) /\ InsideBlock(d) = 0)
              => (/\ Len(checked.faces) = 6
                  /\ FaceDirections(checked.faces) = Direction)

\* a block in the middle of a chunk with a transparent block that is not air
\* above it has its six faces; so has one with air all around
C18_Witness ==
    /\ Called /\ Opaque(checked.block_type_id)
    /\ \A d \in Direction : InsideChunk(d)
    /\ InsideBlock("Up") # 0
    /\ block_registry[InsideBlock("Up") + 1].transparent
    /\ \A d \in Direction \ {"Up"} : InsideBlock(d) = 0
    /\ Len(checked.faces) = 6

(***************************************************************************)
(* Properties of the slots of GpuChunkStorage                              *)
(***************************************************************************)
\* C19: the update of a chunk position that was not mapped, made when k - 1
\* positions were mapped, gives it the slot k - 1, whatever its coordinates
\* and its updates are; so the mapped positions hold the slots 0 .. k - 1.
C19_SlotsFromZeroUp ==
    /\ (Updated /\ ~updated.was_mapped /\ updated.result = "ok") =>
          chunk_blocks_map[updated.chunk_position][1] = updated.mapped_before
    /\ SlotIds = 0 .. (Cardinality(DOMAIN chunk_blocks_map) - 1)

\* the chunk position of x = 0 was given second and holds the slot 1
C19_Witness ==
    /\ Updated /\ ~updated.was_mapped /\ updated.result = "ok"
    /\ updated.chunk_position = Pos(0, 0)
    /\ updated.mapped_before = 1
    /\ chunk_blocks_map[Pos(0, 0)][1] = 1
    /\ chunk_blocks_map[Pos(0, 0)][2] = {}

\* C20: a step of update or upload_indices leaves every mapped chunk
\* position mapped to the slot it had, and takes slots from the end of
\* chunk_holes without ever adding one.
C20_SlotKept ==
    [][/\ \A p \in DOMAIN chunk_blocks_map :
             /\ p \in DOMAIN chunk_blocks_map'
             /\ chunk_blocks_map'[p][1] = chunk_blocks_map[p][1]
       /\ Len(chunk_holes') <= Len(chunk_holes)
       /\ chunk_holes' = SubSeq(chunk_holes, 1, Len(chunk_holes'))]_vars

\* the only block of a mapped chunk was removed by a later update: the chunk
\* is still mapped, to a slot that is not free, and the index was rebuilt
\* after that
C20_Witness ==
    /\ Updated /\ updated.was_mapped /\ updated.result = "ok"
    /\ updated.call >= 3
    /\ chunk_blocks_map[updated.chunk_position][2] = {}
    /\ chunk_blocks_map[updated.chunk_position][1] \notin HoleIds
    /\ Rebuilt
    /\ \E p \in DOMAIN chunk_blocks_map : chunk_blocks_map[p][2] # {}

(***************************************************************************)
(* Properties of GpuChunkStorage::update                                   *)
(***************************************************************************)
\* C21: a call of update for a chunk position that is not mapped takes
\* exactly the last slot id off chunk_holes, whatever its updates are; a call
\* for a mapped position leaves chunk_holes as it is and succeeds, also when
\* chunk_holes is empty.
C21_PopsOnFirstUpdate ==
    [][updated' # updated =>
          IF updated'.chunk_position \in DOMAIN chunk_blocks_map
          THEN /\ updated'.result = "ok"
               /\ chunk_holes' = chunk_holes
          ELSE updated'.result = "ok" =>
                  /\ Len(chunk_holes') = Len(chunk_holes) - 1
                  /\ chunk_holes' =
                        SubSeq(chunk_holes, 1, Len(chunk_holes) - 1)]_vars

\* a mapped chunk position was updated while chunk_holes was empty, and a
\* position that was given no payload holds a slot
C21_Witness ==
    /\ Updated /\ updated.was_mapped /\ updated.result = "ok"
    /\ updated.mapped_before = Capacity
    /\ chunk_holes = <<>>
    /\ \E q \in DOMAIN chunk_blocks_map : chunk_blocks_map[q][2] = {}
    /\ chunk_blocks_map[updated.chunk_position][2] # {}

\* the payload stored at [slot][block_index] of a chunk buffer, if one was
\* written
Payload(buffer, slot, block_index) ==
    IF <<slot, block_index>> \in DOMAIN buffer
    THEN Some(buffer[<<slot, block_index>>])
    ELSE None

\* the place in a batch of the last entry for block_index, 0 when there is
\* none
LastEntry(batch, block_index) ==
    LET places == {i \in DOMAIN batch : batch[i].block_index = block_index}
    IN  IF places = {} THEN 0
        ELSE CHOOSE i \in places : \A j \in places : j <= i

\* the place of the last entry for block_index that carries a payload
LastWrite(batch, block_index) ==
    LET places == {i \in DOMAIN batch :
                      /\ batch[i].block_index = block_index
                      /\ batch[i].block.some}
    IN  IF places = {} THEN 0
        ELSE CHOOSE i \in places : \A j \in places : j <= i

\* the block indices a step of update may have touched or left in place
StepBlockIndices(batch, slot) ==
    {batch[i].block_index : i \in DOMAIN batch} \cup
    {k[2] : k \in {c \in DOMAIN chunk_buffer \cup DOMAIN chunk_buffer' :
                      c[1] = slot}} \cup
    {0, BLOCKS_PER_GPU_CHUNK - 1}

\* C22: after a successful update(chunk, batch), a local index is in the
\* occupied set of the chunk iff the last entry of the batch for it carries
\* a payload (or, without an entry, iff it was there before); the payload
\* stored for it is that of its last entry with a payload (or, without one,
\* the payload stored before: a removal writes nothing); the other chunks
\* keep their slot and occupied set and the other slots their payloads.
C22_BatchAppliedInOrder ==
    [][(updated' # updated /\ updated'.result = "ok") =>
          LET p == updated'.chunk_position
              batch == updated'.updates
              slot == chunk_blocks_map'[p][1]
              before == IF p \in DOMAIN chunk_blocks_map
                        THEN chunk_blocks_map[p][2] ELSE {}
          IN  /\ DOMAIN chunk_blocks_map' = DOMAIN chunk_blocks_map \cup {p}
              /\ \A b \in StepBlockIndices(batch, slot) \cup before
                                \cup chunk_blocks_map'[p][2] :
                    /\ b \in chunk_blocks_map'[p][2] <=>
                          IF LastEntry(batch, b) = 0 THEN b \in before
                          ELSE batch[LastEntry(batch, b)].block.some
                    /\ Payload(chunk_buffer', slot, b) =
                          IF LastWrite(batch, b) = 0
                          THEN Payload(chunk_buffer, slot, b)
                          ELSE batch[LastWrite(batch, b)].block
              /\ \A q \in DOMAIN chunk_blocks_map \ {p} :
                    chunk_blocks_map'[q] = chunk_blocks_map[q]
              /\ \A k \in DOMAIN chunk_buffer \cup DOMAIN chunk_buffer' :
                    k[1] # slot =>
                       Payload(chunk_buffer', k[1], k[2]) =
                          Payload(chunk_buffer, k[1], k[2])]_vars

\* a batch wrote block 0 and removed it again: it is not occupied and its
\* payload is still stored, next to another chunk that holds a block
C22_Witness ==
    /\ Updated /\ updated.result = "ok"
    /\ updated.updates = <<ChunkUpdate(0, Some(1)), ChunkUpdate(0, None)>>
    /\ 0 \notin chunk_blocks_map[updated.chunk_position][2]
    /\ Payload(chunk_buffer, chunk_blocks_map[updated.chunk_position][1], 0)
          = Some(1)
    /\ \E q \in DOMAIN chunk_blocks_map :
          q # updated.chunk_position /\ chunk_blocks_map[q][2] # {}

(***************************************************************************)
(* Properties of GpuChunkStorage::upload_indices: the whole index buffer   *)
(***************************************************************************)
\* C23: after upload_indices returns, every entry of the index buffer, at
\* whatever position, is a pair (slot, local index) of a block that is
\* occupied now: no pair of an earlier call whose local index was removed
\* is left anywhere in the buffer.
C23_RebuildOverwritesAll ==
    Rebuilt =>
        \A i \in DOMAIN index_buffer :
            index_buffer[i] \in Pairs(chunk_blocks_map)

(***************************************************************************)
(* Properties of the faces cull_faces_for_chunk returns                    *)
(***************************************************************************)
\* the (position, direction) pairs of a list of faces
FaceSides(faces) ==
    {<<faces[i].position, faces[i].direction>> : i \in DOMAIN faces}

\* C24: every face cull_faces returns for a chunk has a position (x, y, z)
\* with x and z in [0, 16) and y in [0, 256) and the non-zero block type id
\* that the chunk holds at that position, and no (position, direction) pair
\* is in the list of a chunk twice.
C24_FacesOfOwnBlocks ==
    (Culled /\ ~Called) =>
        \A p \in DOMAIN visible_faces :
            /\ \A i \in DOMAIN visible_faces[p] :
                  LET face == visible_faces[p][i]
                  IN  /\ face.position[1] \in 0 .. 15
                      /\ face.position[2] \in 0 .. 255
                      /\ face.position[3] \in 0 .. 15
                      /\ face.block_type_id # 0
                      /\ face.block_type_id =
                            blocks(culled.world[p], face.position[2],
                                   face.position[1], face.position[3])
            /\ Cardinality(FaceSides(visible_faces[p])) = Len(visible_faces[p])

\* the dug slab: blocks with one face and blocks with two, two chunks culled
C24_Witness ==
    /\ Culled /\ ~Called
    /\ Cardinality(DOMAIN culled.world) = 2
    /\ \E p \in DOMAIN visible_faces :
          /\ Len(visible_faces[p]) > 16 * 16 * 2
          /\ \E i, j \in DOMAIN visible_faces[p] :
                /\ visible_faces[p][i].position = visible_faces[p][j].position
                /\ visible_faces[p][i].direction # visible_faces[p][j].direction
                /\ visible_faces[p][i].position[2] = 63

(***************************************************************************)
(* Properties of a failed update                                           *)
(***************************************************************************)
\* C25: a call of update that fails leaves the map, chunk_holes, the chunk
\* buffer and the index buffer as they were, and a rebuild made before it is
\* as valid as before; the call fails only for a chunk position that is not
\* mapped while chunk_holes is empty.
C25_FailedUpdateChangesNothing ==
    [][(updated' # updated /\ updated'.result = "panic") =>
          /\ updated'.chunk_position \notin DOMAIN chunk_blocks_map
          /\ chunk_holes = <<>>
          /\ chunk_blocks_map' = chunk_blocks_map
          /\ chunk_holes' = chunk_holes
          /\ chunk_buffer' = chunk_buffer
          /\ index_buffer' = index_buffer
          /\ uploaded' = uploaded]_vars

\* a batch with a payload was given for one chunk position too many: the
\* position is not mapped and no slot holds the payload of the batch
C25_Witness ==
    /\ Updated /\ updated.result = "panic"
    /\ updated.updates =
          <<ChunkUpdate(0, Some(1)), ChunkUpdate(BLOCKS_PER_GPU_CHUNK - 1, Some(2))>>
    /\ updated.chunk_position \notin DOMAIN chunk_blocks_map
    /\ Cardinality(DOMAIN chunk_blocks_map) = Capacity
    /\ chunk_buffer = <<>>

(***************************************************************************)
(* Properties of the sizes of GpuChunkStorage                              *)
(***************************************************************************)
\* C26: every local index of every occupied set is below 4096 and at most
\* Capacity chunk positions are mapped; so upload_indices returns at most
\* Capacity * 4096 and writes no entry of the index buffer beyond that.
C26_WithinBuffers ==
    /\ \A p \in DOMAIN chunk_blocks_map :
          \A b \in chunk_blocks_map[p][2] : b \in 0 .. (16 * 16 * 16 - 1)
    /\ Cardinality(DOMAIN chunk_blocks_map) <= Capacity
    /\ OccupiedTotal(chunk_blocks_map, DOMAIN chunk_blocks_map)
          <= Capacity * 16 * 16 * 16
    /\ uploaded.op = "upload_indices" =>
          uploaded.count <= Capacity * 16 * 16 * 16
    /\ Len(index_buffer) <= Capacity * 16 * 16 * 16

\* an update with a payload for the block index 4096 failed after its first
\* entry was applied, and the index was rebuilt: the index 4096 is nowhere
C26_Witness ==
    /\ Updated /\ updated.result = "out_of_bounds"
    /\ Len(updated.updates) = 3
    /\ chunk_blocks_map[updated.chunk_position][2] = {0}
    /\ Rebuilt
    /\ index_buffer = <<<<chunk_blocks_map[updated.chunk_position][1], 0>>>>
    /\ Cardinality(DOMAIN chunk_blocks_map) = Capacity

(***************************************************************************)
(* What a call of check_visible_faces_for_block depends on                 *)
(***************************************************************************)
\* the four chunk positions horizontally next to p
Adjacent(p) ==
    {Pos(p.x + 1, p.z), Pos(p.x - 1, p.z), Pos(p.x, p.z + 1), Pos(p.x, p.z - 1)}

\* the world with every chunk but the one at p and those next to it removed
NearWorld(world_chunks, p) ==
    [q \in DOMAIN world_chunks \cap ({p} \cup Adjacent(p)) |-> world_chunks[q]]

\* cells <<y, x, z>> that are on no horizontal edge of their chunk, the
\* nearest to an edge among them
InteriorCells == {<<1, 14, 8>>, <<1, 1, 8>>, <<1, 8, 1>>, <<1, 8, 14>>}

\* the world after the edit of the cell of the chunk at q: air is put where
\* a block is and stone where air is
InteriorEdited(world_chunks, q, cell) ==
    [world_chunks EXCEPT ![q] =
        blocks_set(@, cell[1], cell[2], cell[3],
            IF blocks(@, cell[1], cell[2], cell[3]) = 0 THEN STONE_ID ELSE 0)]

\* chunk positions that are neither p nor next to p
FarPositions(p) == {Pos(p.x + 1, p.z + 1), Pos(p.x - 2, p.z)}

\* the world with a slab loaded at q
FarLoaded(world_chunks, q) ==
    MapInsert(world_chunks, q, blocks_fill(ChunkDefault, STONE_ID))

\* the faces of the checked block in another world
FacesIn(world_chunks) ==
    check_visible_faces_for_block(checked.block_type_id, world_chunks,
        block_registry, chunks[checked.chunk_position],
        checked.chunk_position, checked.block_position)

\* C27: the faces returned for a block of the chunk at p are the same in
\* the world without the chunks that are neither at p nor next to p, in the
\* world with one more chunk loaded far from p, and in the world with a
\* cell off the horizontal edges of another chunk edited; so the cull of a
\* chunk, made of these calls, depends on its own chunk, the edges of the
\* four chunks next to it and the registry only.
C27_CullReadsNearChunks ==
    Called =>
        /\ checked.faces = FacesIn(NearWorld(chunks, checked.chunk_position))
        /\ \A q \in FarPositions(checked.chunk_position) :
              checked.faces = FacesIn(FarLoaded(chunks, q))
        /\ \A q \in DOMAIN chunks \ {checked.chunk_position} :
              \A cell \in InteriorCells :
                 checked.faces = FacesIn(InteriorEdited(chunks, q, cell))

\* a block on the East edge of its chunk, with a chunk loaded diagonally
\* from it that holds a block: no face towards the missing East chunk
C27_Witness ==
    /\ Called /\ Opaque(checked.block_type_id)
    /\ AcrossEdge("East")
    /\ "East" \notin FaceDirections(checked.faces)
    /\ checked.faces # <<>>
    /\ \E q \in DOMAIN chunks \ ({checked.chunk_position}
                                   \cup Adjacent(checked.chunk_position)) :
          chunks[q] # ChunkDefault

(***************************************************************************)
(* update_visible_faces given a chunk position that is not loaded          *)
(***************************************************************************)
\* the places of the given slice whose chunk position is not loaded
AbsentPlaces ==
    {i \in DOMAIN culled.chunk_positions :
        culled.chunk_positions[i] \notin DOMAIN culled.world}

FirstAbsent == CHOOSE i \in AbsentPlaces : \A j \in AbsentPlaces : i <= j

\* the chunk positions given before the first one that is not loaded
GivenBeforeAbsent ==
    {culled.chunk_positions[i] : i \in 1 .. (FirstAbsent - 1)}

\* C28: update_visible_faces given a chunk position that is not loaded
\* fails; the entries of the positions given before it hold the results of
\* cull_faces_for_chunk on the world as it is, and every other entry, that
\* of the missing position and those of the positions given after it
\* included, is as it was before the call.
C28_RecullFailsAtAbsent ==
    (Reculled /\ AbsentPlaces # {}) =>
        /\ culled.result = "panic"
        /\ DOMAIN visible_faces = DOMAIN culled.before \cup GivenBeforeAbsent
        /\ \A p \in GivenBeforeAbsent :
              visible_faces[p] =
                 cull_faces_for_chunk(culled.world, block_registry,
                                      culled.world[p], p)
        /\ \A p \in DOMAIN culled.before \ GivenBeforeAbsent :
              visible_faces[p] = culled.before[p]

\* the first position given was loaded and its entry was replaced, the
\* second was not loaded and has no entry
C28_Witness ==
    /\ Reculled /\ AbsentPlaces # {}
    /\ culled.result = "panic"
    /\ FirstAbsent = 2
    /\ \E p \in GivenBeforeAbsent :
          /\ p \in DOMAIN culled.before
          /\ visible_faces[p] # culled.before[p]
    /\ culled.chunk_positions[2] \notin DOMAIN visible_faces

(***************************************************************************)
(* World coordinate indexing against the chunk array                       *)
(***************************************************************************)
Wrote == indexed.op \in {"index_mut", "fill_cuboid", "fill_sphere"}

\* x, z >= 0 and 0 <= y < 256
InVolume(cell) ==
    /\ cell[1] >= 0
    /\ cell[3] >= 0
    /\ cell[2] \in 0 .. (CHUNK_HEIGHT - 1)

WrittenInVolume ==
    /\ Wrote
    /\ \A i \in DOMAIN indexed.cells : InVolume(indexed.cells[i])

\* the culler's chunk.blocks[y][x mod 16][z mod 16] of the chunk at
\* (x div 16, z div 16) holds the block
CullerSees(world_chunks, cell, block_type_id) ==
    LET p == Pos(cell[1] \div CHUNK_WIDTH, cell[3] \div CHUNK_WIDTH)
    IN  /\ p \in DOMAIN world_chunks
        /\ blocks(world_chunks[p], cell[2], cell[1] % CHUNK_WIDTH,
                  cell[3] % CHUNK_WIDTH) = block_type_id

\* C29: after a completed write world[[x, y, z]] = b (alone or in the loop
\* of fill_cuboid / fill_sphere) with x, z >= 0 and 0 <= y < 256, the cell
\* the culler reads for the local position (x mod 16, y, z mod 16), that is
\* chunk.blocks[y][x mod 16][z mod 16] of the chunk at (x div 16, z div 16),
\* holds b.
C29_WrittenWhereCulled ==
    (WrittenInVolume /\ indexed.result = "ok") =>
        \A i \in DOMAIN indexed.cells :
            CullerSees(chunks, indexed.cells[i], indexed.value)

ReadBack(world_chunks, cell, block_type_id) ==
    LET read == index(world_chunks, cell)
    IN  read.result = "ok" /\ read.value = block_type_id

OtherCells ==
    {cell \in WorldIndices :
        /\ InVolume(cell)
        /\ \A i \in DOMAIN indexed.cells : indexed.cells[i] # cell}

\* C30: a write at a coordinate with x, z >= 0 and 0 <= y < 256 completes
\* without an out-of-bounds failure, a following read of the coordinate
\* returns the block written, and the value read at every other coordinate
\* is what it was before; a read at a coordinate whose chunk is absent
\* returns 0 and creates no chunk.
C30_WriteReadRoundTrip ==
    /\ WrittenInVolume =>
          /\ indexed.result = "ok"
          /\ \A i \in DOMAIN indexed.cells :
                 ReadBack(chunks, indexed.cells[i], indexed.value)
          /\ \A cell \in OtherCells :
                 index(chunks, cell) = index(indexed.before, cell)
    /\ (/\ indexed.op = "index"
        /\ index_chunk_position(indexed.cells[1]) \notin
               DOMAIN indexed.before) =>
          /\ indexed.result = "ok"
          /\ indexed.value = 0
          /\ chunks = indexed.before

====
